---- MODULE Spec2Model ----
(***************************************************************************)
(* State-machine model of barplexity (src/main.py): a Flask application    *)
(* over three SQLite tables (User, ChatSession, Chat), a signed cookie     *)
(* session per browser, and a pass-through call to an LLM gateway.         *)
(*                                                                         *)
(* A request handler is one atomic action, except where it waits for the   *)
(* LLM gateway: the server is threaded, so other requests are served       *)
(* during that wait.  The two chat handlers are therefore two steps each,  *)
(* the part before the gateway call and the part after it, with the call   *)
(* in flight kept in the variable pending.  What a handler answers is kept *)
(* in the variable last.  Rows get their ids the way SQLite gives an       *)
(* INTEGER PRIMARY KEY without AUTOINCREMENT: largest id in the table + 1. *)
(* SQLite does not enforce the foreign keys (PRAGMA foreign_keys is off).  *)
(* The sidebar list of /chatbot and ChatSession.timestamp, which only      *)
(* orders that list, are read-only presentation and are left out.          *)
(***************************************************************************)
EXTENDS Integers, Sequences, FiniteSets, Bags, TLC

VARIABLES
    users,          \* table User: set of rows
    chat_sessions,  \* table ChatSession: set of rows
    chats,          \* table Chat: set of rows
    session,        \* the Flask cookie session of every browser
    now,            \* the database clock, in seconds (CURRENT_TIMESTAMP)
    last,           \* the latest response, with the request it answers
    turnlog,        \* history: per session id, the ids of its Chat rows in the order
                    \* of their creation
    pending         \* the gateway calls in flight, each with what its handler read:
                    \* a bag, two equal requests are two calls

vars == <<users, chat_sessions, chats, session, now, last, turnlog, pending>>

-----------------------------------------------------------------------------
\* Bounds of the model

MaxUserId == 2
MaxSessionId == 1
MaxChatId == 1
StoreMaxId == 2
TurnsMaxSessionId == 2
TurnsMaxTurns == 3
MaxClock == 1
MaxPending == 1
SharedMaxSessionId == 1
SharedMaxChatId == 1

\* Program constants

SummaryLen == 50
AdminEmail == "admin@barplexity.com"
AdminPassword == "12345678"
AdminName == "Admin"
NewChat == "New Chat"

\* Python's None (an absent form field, JSON key or query parameter)
None == "<None>"
\* An absent integer argument
Absent == -1

\* Inputs
Clients == {"c1"}
Names == {"Alice"}
Emails == {AdminEmail, "a@x.com"}
Passwords == {AdminPassword, "pw1"}
SignupPasswords == {"pw1", ""}
LongMessage == "Please summarise the history of the Roman republic in three sentences"
ShortMessages == {"Hi"}
TurnMessages == {LongMessage, NewChat}
Replies == {"Hello!"}

-----------------------------------------------------------------------------
\* Helpers

MaxOf(S) == CHOOSE m \in S : \A x \in S : x <= m

NextId(rows) == IF rows = {} THEN 1 ELSE MaxOf({r.id : r \in rows}) + 1

HasRow(rows, id) == \E r \in rows : r.id = id

RowOf(rows, id) == CHOOSE r \in rows : r.id = id

Truncate(s, n) == IF Len(s) <= n THEN s ELSE SubSeq(s, 1, n)

Str(v) == IF v = None THEN "None" ELSE v

EmptySession == [logged |-> FALSE, user_id |-> 0, user |-> None]

Response(op, c, target, status, to, flash, body) ==
    [op |-> op, client |-> c, target |-> target, status |-> status, to |-> to,
     flash |-> flash, body |-> body]

Redirect(op, c, target, to, flash) == Response(op, c, target, 302, to, flash, "")

Render(op, c, target, template) == Response(op, c, target, 200, "", "", template)

Fault(op, c, target) == Response(op, c, target, 500, "", "", "")

-----------------------------------------------------------------------------
\* Startup: create_all and the admin bootstrap

BootstrapAdmin(us) ==
    IF \E u \in us : u.email = AdminEmail
    THEN us
    ELSE us \cup {[id |-> NextId(us), name |-> AdminName, email |-> AdminEmail,
                   password |-> AdminPassword, is_blocked |-> FALSE,
                   is_banned |-> FALSE, is_admin |-> TRUE]}

Init ==
    /\ users = BootstrapAdmin({})
    /\ chat_sessions = {}
    /\ chats = {}
    /\ session = [c \in Clients |-> EmptySession]
    /\ now = 0
    /\ last = Response("startup", "-", Absent, 0, "", "", "")
    /\ turnlog = << >>
    /\ pending = EmptyBag

Startup ==
    /\ users' = BootstrapAdmin(users)
    /\ last' = Response("startup", "-", Absent, 0, "", "", "")
    /\ UNCHANGED <<chat_sessions, chats, session, now, turnlog, pending>>

Tick ==
    /\ now' = now + 1
    /\ UNCHANGED <<users, chat_sessions, chats, session, last, turnlog, pending>>

-----------------------------------------------------------------------------
\* GET / and GET /login_page

Home(c) ==
    /\ last' = Render("home", c, Absent, "barplexity.html")
    /\ UNCHANGED <<users, chat_sessions, chats, session, now, turnlog, pending>>

LoginPage(c) ==
    /\ last' = Render("login_page", c, Absent, "login.html")
    /\ UNCHANGED <<users, chat_sessions, chats, session, now, turnlog, pending>>

-----------------------------------------------------------------------------
\* POST /signup

FieldMissing(v) == v = None \/ v = ""

EmailTakenNever(email) == FALSE

EmailTaken(email) == \E u \in users : u.email = email

NewUserByEmail(id, name, email, password) ==
    [id |-> id, name |-> name, email |-> email, password |-> password,
     is_blocked |-> FALSE, is_banned |-> FALSE, is_admin |-> email = AdminEmail]

NewUser(id, name, email, password) ==
    [id |-> id, name |-> name, email |-> email, password |-> password,
     is_blocked |-> FALSE, is_banned |-> FALSE, is_admin |-> FALSE]

Signup(c, name, email, password) ==
    /\ UNCHANGED <<chat_sessions, chats, session, now, turnlog, pending>>
    /\ IF FieldMissing(name) \/ FieldMissing(email) \/ FieldMissing(password)
       THEN /\ last' = Redirect("signup", c, Absent, "home", "All fields are required!")
            /\ UNCHANGED users
       ELSE IF EmailTaken(email)
       THEN /\ last' = Redirect("signup", c, Absent, "login_page", "Email already registered!")
            /\ UNCHANGED users
       ELSE /\ users' = users \cup {NewUser(NextId(users), name, email, password)}
            /\ last' = Redirect("signup", c, Absent, "login_page",
                                "Signup successful! Please login.")

-----------------------------------------------------------------------------
\* POST /signin

SigninOutcomeNoBan(us, email, password) ==
    LET found == {u \in us : u.email = email} IN
    IF found = {}
    THEN [ok |-> FALSE, to |-> "login_page", flash |-> "Invalid credentials!"]
    ELSE LET user == CHOOSE u \in found : TRUE IN
         IF user.is_blocked
         THEN [ok |-> FALSE, to |-> "login_page", flash |-> "You are blocked. Contact admin."]
         ELSE IF user.password = password
         THEN [ok |-> TRUE, to |-> IF user.is_admin THEN "admin_dashboard" ELSE "chatbot",
               flash |-> ""]
         ELSE [ok |-> FALSE, to |-> "home", flash |-> "Invalid credentials!"]

SigninOutcome(us, email, password) ==
    LET found == {u \in us : u.email = email} IN
    IF found = {}
    THEN [ok |-> FALSE, to |-> "login_page", flash |-> "Invalid credentials!"]
    ELSE LET user == CHOOSE u \in found : TRUE IN
         IF user.is_banned
         THEN [ok |-> FALSE, to |-> "home", flash |-> "This email is banned. Contact admin."]
         ELSE IF user.is_blocked
         THEN [ok |-> FALSE, to |-> "login_page", flash |-> "You are blocked. Contact admin."]
         ELSE IF user.password = password
         THEN [ok |-> TRUE, to |-> IF user.is_admin THEN "admin_dashboard" ELSE "chatbot",
               flash |-> ""]
         ELSE [ok |-> FALSE, to |-> "home", flash |-> "Invalid credentials!"]

Signin(c, email, password) ==
    LET out == SigninOutcome(users, email, password) IN
    /\ last' = Redirect("signin", c, Absent, out.to, out.flash)
    /\ IF out.ok
       THEN LET user == CHOOSE u \in users : u.email = email IN
            session' = [session EXCEPT ![c] =
                           [logged |-> TRUE, user_id |-> user.id, user |-> user.name]]
       ELSE UNCHANGED session
    /\ UNCHANGED <<users, chat_sessions, chats, now, turnlog, pending>>

\* GET /logout

Logout(c) ==
    /\ session' = [session EXCEPT ![c] = EmptySession]
    /\ last' = Redirect("logout", c, Absent, "login_page", "Logged out successfully!")
    /\ UNCHANGED <<users, chat_sessions, chats, now, turnlog, pending>>

-----------------------------------------------------------------------------
\* Admin routes

IsAdminSession(c) ==
    /\ session[c].logged
    /\ \E u \in users : u.id = session[c].user_id /\ u.is_admin

AdminDashboard(c) ==
    /\ last' = IF IsAdminSession(c)
               THEN Render("admin_dashboard", c, Absent, "admin.html")
               ELSE Redirect("admin_dashboard", c, Absent, "home", "Access denied!")
    /\ UNCHANGED <<users, chat_sessions, chats, session, now, turnlog, pending>>

BlockUser(c, user_id) ==
    /\ UNCHANGED <<chat_sessions, chats, session, now, turnlog, pending>>
    /\ IF HasRow(users, user_id)
       THEN LET user == RowOf(users, user_id)
                toggled == [user EXCEPT !.is_blocked = ~user.is_blocked] IN
            /\ users' = (users \ {user}) \cup {toggled}
            /\ last' = Redirect("block_user", c, user_id, "admin_dashboard",
                                user.name \o (IF toggled.is_blocked
                                              THEN " has been blocked!"
                                              ELSE " has been unblocked!"))
       ELSE /\ UNCHANGED users
            /\ last' = Redirect("block_user", c, user_id, "admin_dashboard", "")

\* relationship User.sessions, cascade="all, delete-orphan"
CascadeSessions(user_id) == {s \in chat_sessions : s.user_id # user_id}

\* relationship ChatSession.chats, cascade="all, delete-orphan"
CascadeChats(sids) == {ch \in chats : ch.session_id \notin sids}

DropLog(sids) == [k \in (DOMAIN turnlog) \ sids |-> turnlog[k]]

DeleteUser(c, user_id) ==
    /\ UNCHANGED <<session, now, pending>>
    /\ IF HasRow(users, user_id)
       THEN LET user == RowOf(users, user_id)
                kept == CascadeSessions(user_id)
                gone == {s.id : s \in chat_sessions \ kept} IN
            /\ users' = users \ {user}
            /\ chat_sessions' = kept
            /\ chats' = CascadeChats(gone)
            /\ turnlog' = DropLog(gone)
            /\ last' = Redirect("delete_user", c, user_id, "admin_dashboard",
                                user.name \o " has been deleted and banned!")
       ELSE /\ UNCHANGED <<users, chat_sessions, chats, turnlog>>
            /\ last' = Redirect("delete_user", c, user_id, "admin_dashboard", "")

-----------------------------------------------------------------------------
\* The prompt sent to the LLM gateway

LaterFirst(x, y) ==
    \/ x.timestamp > y.timestamp
    \/ x.timestamp = y.timestamp /\ x.id >= y.id

\* ORDER BY timestamp ASC; rows of one second come out in rowid order, the
\* order in which SQLite scans the table
Earlier(x, y) ==
    \/ x.timestamp < y.timestamp
    \/ x.timestamp = y.timestamp /\ x.id <= y.id

RECURSIVE OrderByTimestamp(_)
OrderByTimestamp(rows) ==
    IF rows = {} THEN << >>
    ELSE LET first == CHOOSE x \in rows : \A y \in rows : Earlier(x, y) IN
         <<first>> \o OrderByTimestamp(rows \ {first})

PreviousChats(session_id) ==
    OrderByTimestamp({ch \in chats : ch.session_id = session_id})

RECURSIVE Transcript(_)
Transcript(rows) ==
    IF rows = << >> THEN ""
    ELSE "User: " \o Head(rows).question \o "\nBot: " \o Head(rows).answer \o "\n"
         \o Transcript(Tail(rows))

BuildPrompt(previous_chats, user_message) ==
    Transcript(previous_chats) \o "User: " \o Str(user_message) \o "\nBot:"

NewTurn(session_id, user_message, bot_reply) ==
    [id |-> NextId(chats), session_id |-> session_id, question |-> user_message,
     answer |-> bot_reply, timestamp |-> now]

Log(session_id) ==
    IF session_id \in DOMAIN turnlog THEN turnlog[session_id] ELSE << >>

Logged(chat_msg) ==
    [k \in (DOMAIN turnlog) \cup {chat_msg.session_id} |->
        IF k = chat_msg.session_id THEN Append(Log(k), chat_msg.id) ELSE turnlog[k]]

\* A gateway call in flight: the handler, its browser, the session row it
\* read (id and summary), the message and the prompt it sent
Call(op, c, current_session, user_message, prompt) ==
    [op |-> op, client |-> c, session_id |-> current_session.id,
     summary |-> current_session.summary, user_message |-> user_message,
     prompt |-> prompt]

-----------------------------------------------------------------------------
\* GET|POST /chatbot, up to the gateway call (a GET: to its end)

ChatbotOpen(c, method, session_id, user_message) ==
    LET op == IF method = "POST" THEN "chatbot_post" ELSE "chatbot_get" IN
    /\ UNCHANGED <<users, chats, now, turnlog>>
    /\ IF ~session[c].logged
       THEN /\ last' = Redirect(op, c, Absent, "home", "")
            /\ UNCHANGED <<chat_sessions, session, pending>>
       ELSE IF ~HasRow(users, session[c].user_id)
       THEN /\ session' = [session EXCEPT ![c] = EmptySession]
            /\ last' = Redirect(op, c, Absent, "home", "")
            /\ UNCHANGED <<chat_sessions, pending>>
       ELSE IF session_id # Absent /\ ~HasRow(chat_sessions, session_id)
       THEN \* current_session is None: current_session.id raises
            /\ last' = Fault(op, c, Absent)
            /\ UNCHANGED <<chat_sessions, session, pending>>
       ELSE
         LET fresh == [id |-> NextId(chat_sessions), user_id |-> session[c].user_id,
                       summary |-> NewChat]
             current_session == IF session_id = Absent THEN fresh
                                ELSE RowOf(chat_sessions, session_id)
             prompt == BuildPrompt(PreviousChats(current_session.id), user_message)
         IN
         /\ UNCHANGED session
         /\ chat_sessions' = IF session_id = Absent THEN chat_sessions \cup {fresh}
                             ELSE chat_sessions
         /\ IF method = "GET"
            THEN /\ last' = Render(op, c, current_session.id, "chatbot.html")
                 /\ UNCHANGED pending
            ELSE /\ pending' = pending (+)
                       SetToBag({Call("chatbot_post", c, current_session, user_message, prompt)})
                 /\ UNCHANGED last

\* POST /chatbot, from the gateway's answer on

\* if current_session.summary == "New Chat": current_session.summary =
\* user_message[:50], on the row as the handler read it before the gateway
\* call; the commit emits an UPDATE only for a value that differs from it
SummaryChanges(call) ==
    /\ call.summary = NewChat
    /\ Truncate(call.user_message, SummaryLen) # NewChat

\* the UPDATE of the summary, by primary key
SummaryUpdate(rows, call) ==
    IF SummaryChanges(call)
    THEN {IF s.id = call.session_id
          THEN [s EXCEPT !.summary = Truncate(call.user_message, SummaryLen)]
          ELSE s : s \in rows}
    ELSE rows

ChatbotStore(call, bot_reply) ==
    LET chat_msg == NewTurn(call.session_id, call.user_message, bot_reply)
        rejected ==
           \* None[:50] raises; a None question or answer fails the NOT NULL
           \* columns; the UPDATE of a summary whose row is gone matches no row
           \* (no UPDATE is emitted for a summary that keeps its value)
           \/ call.user_message = None
           \/ bot_reply = None
           \/ SummaryChanges(call) /\ ~HasRow(chat_sessions, call.session_id)
    IN
    /\ BagIn(call, pending)
    /\ call.op = "chatbot_post"
    /\ pending' = pending (-) SetToBag({call})
    /\ UNCHANGED <<users, session, now>>
    /\ IF rejected
       THEN /\ last' = Fault("chatbot_post", call.client, call.session_id)
            /\ UNCHANGED <<chat_sessions, chats, turnlog>>
       ELSE /\ chats' = chats \cup {chat_msg}
            /\ turnlog' = Logged(chat_msg)
            /\ chat_sessions' = SummaryUpdate(chat_sessions, call)
            /\ last' = IF HasRow(chat_sessions, call.session_id)
                       THEN Response("chatbot_post", call.client, call.session_id, 200,
                                     "", "", "chatbot.html")
                       ELSE \* current_session.id after the commit: the row is gone
                            Fault("chatbot_post", call.client, call.session_id)

-----------------------------------------------------------------------------
\* POST /chatbot-api, up to the gateway call

ApiAuthorisedLiveUser(c) ==
    /\ session[c].logged
    /\ \E u \in users : u.id = session[c].user_id /\ ~u.is_blocked

ApiAuthorised(c) == session[c].logged

ApiOpen(c, session_id, user_message) ==
    /\ UNCHANGED <<users, chat_sessions, chats, session, now, turnlog>>
    /\ IF ~ApiAuthorised(c)
       THEN /\ last' = Response("chatbot_api", c, session_id, 200, "", "", "Please login first!")
            /\ UNCHANGED pending
       ELSE IF ~HasRow(chat_sessions, session_id)
       THEN /\ last' = Response("chatbot_api", c, session_id, 200, "", "", "Chat session not found!")
            /\ UNCHANGED pending
       ELSE /\ pending' = pending (+)
                  SetToBag({Call("chatbot_api", c, RowOf(chat_sessions, session_id), user_message,
                        BuildPrompt(PreviousChats(session_id), user_message))})
            /\ UNCHANGED last

\* POST /chatbot-api, from the gateway's answer on

ApiStore(call, bot_reply) ==
    LET chat_msg == NewTurn(call.session_id, call.user_message, bot_reply) IN
    /\ BagIn(call, pending)
    /\ call.op = "chatbot_api"
    /\ pending' = pending (-) SetToBag({call})
    /\ UNCHANGED <<users, chat_sessions, session, now>>
    /\ IF call.user_message = None \/ bot_reply = None
       THEN \* the NOT NULL columns question and answer: the commit fails
            /\ last' = Fault("chatbot_api", call.client, call.session_id)
            /\ UNCHANGED <<chats, turnlog>>
       ELSE /\ chats' = chats \cup {chat_msg}
            /\ turnlog' = Logged(chat_msg)
            /\ last' = Response("chatbot_api", call.client, call.session_id, 200, "", "", bot_reply)

-----------------------------------------------------------------------------
\* DELETE /delete-chat/<session_id>

MayDeleteAnyChat(c, session_id) == HasRow(chat_sessions, session_id)

MayDeleteChat(c, session_id) ==
    /\ HasRow(chat_sessions, session_id)
    /\ RowOf(chat_sessions, session_id).user_id = session[c].user_id

DeleteChat(c, session_id) ==
    /\ UNCHANGED <<users, session, now, pending>>
    /\ IF ~session[c].logged
       THEN /\ last' = Response("delete_chat", c, session_id, 403, "", "", "Unauthorized")
            /\ UNCHANGED <<chat_sessions, chats, turnlog>>
       ELSE IF MayDeleteChat(c, session_id)
       THEN /\ chat_sessions' = {s \in chat_sessions : s.id # session_id}
            /\ chats' = CascadeChats({session_id})
            /\ turnlog' = DropLog({session_id})
            /\ last' = Response("delete_chat", c, session_id, 200, "", "", "success")
       ELSE /\ last' = Response("delete_chat", c, session_id, 404, "", "", "Chat not found")
            /\ UNCHANGED <<chat_sessions, chats, turnlog>>

-----------------------------------------------------------------------------
\* The bounds of a run: row ids, the clock and the number of gateway calls in
\* flight stay below the given limits

Within(max_user, max_session, max_chat, max_clock, max_pending) ==
    /\ \A u \in users : u.id <= max_user
    /\ \A s \in chat_sessions : s.id <= max_session
    /\ \A ch \in chats : ch.id <= max_chat
    /\ now <= max_clock
    /\ BagCardinality(pending) <= max_pending

InBounds == Within(MaxUserId, MaxSessionId, MaxChatId, 0, MaxPending)

\* The gateway answers with a text or with None (response.text is Optional)
GatewayReplies == Replies \cup {None}

\* The program: startup on a fresh store, then any request from any browser
\* and any restart, the gateway answering the calls in flight in any order.

Next ==
    \/ Startup /\ InBounds'
    \/ \E c \in Clients : Home(c)
    \/ \E c \in Clients : LoginPage(c)
    \/ \E c \in Clients, name \in Names \cup {""}, email \in Emails \cup {""},
          password \in SignupPasswords : Signup(c, name, email, password) /\ InBounds'
    \/ \E c \in Clients, email \in Emails \cup {None}, password \in Passwords :
          Signin(c, email, password)
    \/ \E c \in Clients : Logout(c)
    \/ \E c \in Clients : AdminDashboard(c)
    \/ \E c \in Clients, user_id \in 1..MaxUserId : BlockUser(c, user_id)
    \/ \E c \in Clients, user_id \in 1..MaxUserId : DeleteUser(c, user_id)
    \/ \E c \in Clients, session_id \in (1..MaxSessionId) \cup {Absent} :
          ChatbotOpen(c, "GET", session_id, None) /\ InBounds'
    \/ \E c \in Clients, session_id \in (1..MaxSessionId) \cup {Absent},
          user_message \in ShortMessages \cup {NewChat, None} :
          ChatbotOpen(c, "POST", session_id, user_message) /\ InBounds'
    \/ \E call \in BagToSet(pending), bot_reply \in GatewayReplies :
          ChatbotStore(call, bot_reply) /\ InBounds'
    \/ \E c \in Clients, session_id \in (1..MaxSessionId) \cup {Absent},
          user_message \in ShortMessages \cup {None} :
          ApiOpen(c, session_id, user_message) /\ InBounds'
    \/ \E call \in BagToSet(pending), bot_reply \in GatewayReplies :
          ApiStore(call, bot_reply) /\ InBounds'
    \/ \E c \in Clients, session_id \in 1..MaxSessionId : DeleteChat(c, session_id)

Spec == Init /\ [][Next]_vars

-----------------------------------------------------------------------------
\* Accounts: the same program without the two requests that call the gateway
\* (they write neither the User table nor, once past their checks, a cookie).

AccountsNext ==
    \/ Startup /\ InBounds'
    \/ \E c \in Clients : Home(c)
    \/ \E c \in Clients : LoginPage(c)
    \/ \E c \in Clients, name \in Names \cup {""}, email \in Emails \cup {""},
          password \in SignupPasswords : Signup(c, name, email, password) /\ InBounds'
    \/ \E c \in Clients, email \in Emails \cup {None}, password \in Passwords :
          Signin(c, email, password)
    \/ \E c \in Clients : Logout(c)
    \/ \E c \in Clients : AdminDashboard(c)
    \/ \E c \in Clients, user_id \in 1..MaxUserId : BlockUser(c, user_id)
    \/ \E c \in Clients, user_id \in 1..MaxUserId : DeleteUser(c, user_id)
    \/ \E c \in Clients, session_id \in (1..MaxSessionId) \cup {Absent} :
          ChatbotOpen(c, "GET", session_id, None) /\ InBounds'
    \/ \E c \in Clients, session_id \in 1..MaxSessionId : DeleteChat(c, session_id)

SpecAccounts == Init /\ [][AccountsNext]_vars

-----------------------------------------------------------------------------
\* Conversations: Alice has signed up, signed in and opened /chatbot twice,
\* which created sessions 1 and 2; her browser then sends chat requests for
\* the session ids it knows, several at a time, while the clock runs and the
\* gateway answers each call with a text.

TurnsInit ==
    /\ users = BootstrapAdmin({}) \cup {NewUser(2, "Alice", "a@x.com", "pw1")}
    /\ chat_sessions = {[id |-> 1, user_id |-> 2, summary |-> NewChat],
                        [id |-> 2, user_id |-> 2, summary |-> NewChat]}
    /\ chats = {}
    /\ session = [c \in Clients |-> [logged |-> TRUE, user_id |-> 2, user |-> "Alice"]]
    /\ now = 0
    /\ last = Render("chatbot_get", "c1", 2, "chatbot.html")
    /\ turnlog = << >>
    /\ pending = EmptyBag

\* The turns of a run, stored or at the gateway, are bounded together
TurnsInBounds ==
    /\ Within(MaxUserId, TurnsMaxSessionId, TurnsMaxTurns, MaxClock, TurnsMaxTurns)
    /\ Cardinality(chats) + BagCardinality(pending) <= TurnsMaxTurns

TurnsNext ==
    \/ Tick /\ TurnsInBounds'
    \/ \E c \in Clients, session_id \in 1..TurnsMaxSessionId,
          user_message \in TurnMessages :
          ChatbotOpen(c, "POST", session_id, user_message) /\ TurnsInBounds'
    \/ \E call \in BagToSet(pending), bot_reply \in Replies :
          ChatbotStore(call, bot_reply) /\ TurnsInBounds'
    \/ \E c \in Clients, session_id \in 1..TurnsMaxSessionId,
          user_message \in TurnMessages :
          ApiOpen(c, session_id, user_message) /\ TurnsInBounds'
    \/ \E call \in BagToSet(pending), bot_reply \in Replies :
          ApiStore(call, bot_reply) /\ TurnsInBounds'

SpecTurns == TurnsInit /\ [][TurnsNext]_vars

-----------------------------------------------------------------------------
\* A session of somebody else: the admin has signed in, opened /chatbot (which
\* created session 1) and logged out; Alice has signed up and signed in.  Her
\* browser then sends chat and delete requests and signs in and out, while
\* /admin/block and /admin/delete requests arrive.

SharedInit ==
    /\ users = BootstrapAdmin({}) \cup {NewUser(2, "Alice", "a@x.com", "pw1")}
    /\ chat_sessions = {[id |-> 1, user_id |-> 1, summary |-> NewChat]}
    /\ chats = {}
    /\ session = [c \in Clients |-> [logged |-> TRUE, user_id |-> 2, user |-> "Alice"]]
    /\ now = 0
    /\ last = Redirect("signin", "c1", Absent, "chatbot", "")
    /\ turnlog = << >>
    /\ pending = EmptyBag

SharedInBounds == Within(MaxUserId, SharedMaxSessionId, SharedMaxChatId, 0, MaxPending)

SharedNext ==
    \/ \E c \in Clients, user_id \in 1..MaxUserId : BlockUser(c, user_id)
    \/ \E c \in Clients, user_id \in 1..MaxUserId : DeleteUser(c, user_id)
    \/ \E c \in Clients, session_id \in (1..SharedMaxSessionId) \cup {Absent} :
          ChatbotOpen(c, "GET", session_id, None) /\ SharedInBounds'
    \/ \E c \in Clients, session_id \in (1..SharedMaxSessionId) \cup {Absent},
          user_message \in ShortMessages \cup {None} :
          ApiOpen(c, session_id, user_message) /\ SharedInBounds'
    \/ \E call \in BagToSet(pending), bot_reply \in GatewayReplies :
          ApiStore(call, bot_reply) /\ SharedInBounds'
    \/ \E c \in Clients, session_id \in 1..SharedMaxSessionId : DeleteChat(c, session_id)

SpecShared == SharedInit /\ [][SharedNext]_vars

-----------------------------------------------------------------------------
\* Sign-in over any users.db found on disk: every table the schema admits
\* (ids and emails unique), whatever its flags, after the startup bootstrap.

StoreRows ==
    [id : 1..StoreMaxId, name : Names, email : Emails, password : Passwords,
     is_blocked : BOOLEAN, is_banned : BOOLEAN, is_admin : BOOLEAN]

StoreTables ==
    {{}} \cup
    {t \in {{r1, r2} : r1 \in StoreRows, r2 \in StoreRows} :
        \A a \in t, b \in t : (a.id = b.id \/ a.email = b.email) => a = b}

StoreInit ==
    /\ users \in {BootstrapAdmin(found) : found \in StoreTables}
    /\ chat_sessions = {}
    /\ chats = {}
    /\ session = [c \in Clients |-> EmptySession]
    /\ now = 0
    /\ last = Response("startup", "-", Absent, 0, "", "", "")
    /\ turnlog = << >>
    /\ pending = EmptyBag

StoreNext ==
    \/ \E c \in Clients, email \in Emails \cup {None}, password \in Passwords \cup {None} :
          Signin(c, email, password)
    \/ \E c \in Clients : Logout(c)

SpecStore == StoreInit /\ [][StoreNext]_vars

-----------------------------------------------------------------------------
\* Claims

DbUnchanged == users' = users /\ chat_sessions' = chat_sessions /\ chats' = chats

\* C1 (as stated): a request to /admin, /admin/block/<id> or /admin/delete/<id>
\* from a browser whose session does not hold the id of an existing admin row
\* is redirected to the home view and changes no User, ChatSession or Chat row.
C1_AdminRoutesRequireAdmin ==
    [][\A c \in Clients :
          (/\ ~IsAdminSession(c)
           /\ \/ AdminDashboard(c)
              \/ \E user_id \in 1..MaxUserId : BlockUser(c, user_id) \/ DeleteUser(c, user_id))
          => (last'.to = "home" /\ DbUnchanged)]_vars

\* The condition under which the claim lets a sign-in succeed
SigninAccepted(email, password) ==
    \E u \in users : /\ u.email = email
                     /\ u.password = password
                     /\ ~u.is_banned
                     /\ ~u.is_blocked

\* C2: signin(email, password) puts a user id and name into the auth session
\* exactly when a row with that email exists, its password equals the submitted
\* one and it is neither banned nor blocked (so never for a banned row); every
\* rejected signin leaves the auth session as it was.
C2_SigninIffAccepted ==
    [][last'.op = "signin" =>
       \A c \in Clients, email \in Emails \cup {None}, password \in Passwords \cup {None} :
          Signin(c, email, password) =>
             IF SigninAccepted(email, password)
             THEN /\ \E u \in users :
                        /\ u.email = email
                        /\ session'[c] = [logged |-> TRUE, user_id |-> u.id, user |-> u.name]
                  /\ last'.to \in {"admin_dashboard", "chatbot"}
             ELSE /\ session' = session
                  /\ last'.to \in {"home", "login_page"}]_vars

\* C2 witness: a banned row was turned away and the browser stays signed out
C2_BannedRefused ==
    /\ last.op = "signin"
    /\ last.flash = "This email is banned. Contact admin."
    /\ \E u \in users : u.is_banned /\ ~u.is_blocked
    /\ \A c \in Clients : ~session[c].logged

SessionOwnedBy(c, session_id) ==
    \E s \in chat_sessions : s.id = session_id /\ s.user_id = session[c].user_id

ChatTablesUnchanged == chat_sessions' = chat_sessions /\ chats' = chats

\* C3 (as stated): for a signed-in user, DELETE /delete-chat/<id> answers 403
\* when the session exists with another owner, 404 when it does not exist,
\* deleting nothing in both cases, and 200 with the session deleted only when
\* the session exists and is the user's own.
C3_ForeignSessionForbidden ==
    [][last'.op = "delete_chat" =>
       \A c \in Clients, session_id \in 1..SharedMaxSessionId :
          (DeleteChat(c, session_id) /\ session[c].logged) =>
             /\ (HasRow(chat_sessions, session_id) /\ ~SessionOwnedBy(c, session_id))
                   => (last'.status = 403 /\ ChatTablesUnchanged)
             /\ ~HasRow(chat_sessions, session_id)
                   => (last'.status = 404 /\ ChatTablesUnchanged)
             /\ SessionOwnedBy(c, session_id)
                   => (last'.status = 200 /\ ~HasRow(chat_sessions', session_id))
             /\ last'.status = 200 => SessionOwnedBy(c, session_id)]_vars

\* C3 (amended): for a signed-in user, DELETE /delete-chat/<id> answers 404
\* both when the session exists with another owner and when it does not
\* exist, deleting nothing; 403 is the answer to a browser that is not signed
\* in; 200, with the session and its chats deleted, is given only for an
\* existing session of the user's own.
C3_ForeignSessionNotFound ==
    [][last'.op = "delete_chat" =>
       \A c \in Clients, session_id \in 1..SharedMaxSessionId :
          DeleteChat(c, session_id) =>
             IF ~session[c].logged
             THEN last'.status = 403 /\ ChatTablesUnchanged
             ELSE /\ (HasRow(chat_sessions, session_id) /\ ~SessionOwnedBy(c, session_id))
                        => (last'.status = 404 /\ ChatTablesUnchanged)
                  /\ ~HasRow(chat_sessions, session_id)
                        => (last'.status = 404 /\ ChatTablesUnchanged)
                  /\ SessionOwnedBy(c, session_id)
                        => /\ last'.status = 200
                           /\ ~HasRow(chat_sessions', session_id)
                           /\ \A ch \in chats' : ch.session_id # session_id
                  /\ last'.status = 200 => SessionOwnedBy(c, session_id)]_vars

\* C3 witness: a signed-in user asked to delete another user's session, got
\* 404 and the session is still there
C3_ForeignSessionKept ==
    /\ last.op = "delete_chat"
    /\ last.status = 404
    /\ session[last.client].logged
    /\ \E s \in chat_sessions :
          s.id = last.target /\ s.user_id # session[last.client].user_id

UniqueEmails == \A a \in users, b \in users : a.email = b.email => a = b

SignupRejectsTakenEmail ==
    last'.op = "signup" =>
    \A c \in Clients, name \in Names \cup {""}, email \in Emails \cup {""},
       password \in SignupPasswords :
       (Signup(c, name, email, password) /\ \E u \in users : u.email = email)
          => /\ users' = users
             /\ last'.flash \in {"Email already registered!", "All fields are required!"}

\* C6: a signup whose email is already stored is rejected and leaves the User
\* table as it was, and in every reachable state no two rows share an email.
C6_EmailUnique == []UniqueEmails /\ [][SignupRejectsTakenEmail]_vars

\* C6 witness: a signup was turned away because its email is registered
C6_DuplicateRefused ==
    /\ last.op = "signup"
    /\ last.flash = "Email already registered!"
    /\ Cardinality(users) = 2

\* The turns of a session in the order of their creation, as rows
TurnRow(session_id, k) == RowOf(chats, Log(session_id)[k])

\* C4 (as stated): a session without turns has the summary "New Chat"; from
\* its first turn on, whichever route added it, the summary is the first 50
\* characters of that first user message, and it stays so.
C4_SummaryIsFirstMessage ==
    \A s \in chat_sessions :
       IF Log(s.id) = << >>
       THEN s.summary = NewChat
       ELSE s.summary = Truncate(TurnRow(s.id, 1).question, SummaryLen)

NoOrphans ==
    /\ \A s \in chat_sessions : \E u \in users : u.id = s.user_id
    /\ \A ch \in chats : \E s \in chat_sessions : s.id = ch.session_id

DeleteUserCascades ==
    last'.op = "delete_user" =>
    \A c \in Clients, user_id \in 1..MaxUserId :
       DeleteUser(c, user_id) =>
          /\ \A s \in chat_sessions' : s.user_id # user_id
          /\ \A ch \in chats' :
                \A s \in chat_sessions : s.user_id = user_id => ch.session_id # s.id

\* C5 (as stated): after admin delete of a User no ChatSession of that user
\* and no Chat of those sessions remains, and in every reachable state every
\* ChatSession belongs to an existing User and every Chat to an existing
\* ChatSession.
C5_CascadeComplete == []NoOrphans /\ [][DeleteUserCascades]_vars

RECURSIVE PairsText(_, _)
PairsText(session_id, n) ==
    IF n = 0 THEN ""
    ELSE PairsText(session_id, n - 1)
         \o "User: " \o TurnRow(session_id, n).question
         \o "\nBot: " \o TurnRow(session_id, n).answer \o "\n"

\* The prompt the claim expects for a call: the turns its session holds when
\* the call is made, then the new message and the trailing marker
ExpectedPrompt(call) ==
    PairsText(call.session_id, Len(Log(call.session_id)))
    \o "User: " \o (IF call.user_message = None THEN "None" ELSE call.user_message)
    \o "\nBot:"

\* C7: whenever a chat turn is sent to the gateway, through /chatbot or
\* /chatbot-api, for a session that holds n turns at that moment, the prompt
\* is those n question/answer pairs in the order of their creation, each
\* once, then the new user message and the trailing marker.
C7_PromptReplaysTurns ==
    [][\A call \in BagToSet(pending') :
          CopiesIn(call, pending') > CopiesIn(call, pending)
             => call.prompt = ExpectedPrompt(call)]_vars

\* C7 witness: the third turn of a session is at the gateway, after two turns
\* with different questions stored in the same second, and its prompt
\* replays both
C7_ThirdTurnSent ==
    \E call \in BagToSet(pending) :
       /\ Len(Log(call.session_id)) = 2
       /\ TurnRow(call.session_id, 1).question # TurnRow(call.session_id, 2).question
       /\ TurnRow(call.session_id, 1).timestamp = TurnRow(call.session_id, 2).timestamp
       /\ call.prompt = ExpectedPrompt(call)

\* C8 (as stated): right after the startup bootstrap, on any store the routes
\* can leave behind, a row with the admin email and the admin flag exists and
\* signin("admin@barplexity.com", "12345678") succeeds towards the dashboard.
C8_AdminCanSignInAfterStartup ==
    last.op = "startup" =>
       /\ \E u \in users : u.email = AdminEmail /\ u.is_admin
       /\ SigninOutcome(users, AdminEmail, AdminPassword).ok
       /\ SigninOutcome(users, AdminEmail, AdminPassword).to = "admin_dashboard"

OnlyBootstrapAdmin ==
    /\ \A u \in users : u.is_admin => u.email = AdminEmail
    /\ Cardinality({u \in users : u.is_admin}) <= 1

SignupAddsNoAdmin ==
    last'.op = "signup" =>
    \A c \in Clients, name \in Names \cup {""}, email \in Emails \cup {""},
       password \in SignupPasswords :
       Signup(c, name, email, password) => \A u \in users' \ users : ~u.is_admin

\* C9: every row with the admin flag has the email admin@barplexity.com, there
\* is at most one such row, and a row added by signup is never an admin, also
\* when it takes the admin email after the admin row was deleted.
C9_NoHandlerGrantsAdmin == []OnlyBootstrapAdmin /\ [][SignupAddsNoAdmin]_vars

\* C9 witness: after the admin row was deleted, a signup took the admin email
\* and its row has no admin flag
C9_AdminEmailRetaken ==
    /\ last.op = "signup"
    /\ \E u \in users : u.email = AdminEmail /\ ~u.is_admin

AdminActionsKeepSessions ==
    last'.op \in {"block_user", "delete_user"} =>
    \A c \in Clients, user_id \in 1..MaxUserId :
       (BlockUser(c, user_id) \/ DeleteUser(c, user_id)) => session' = session

OneChatAdded(session_id) ==
    \E ch \in chats' : /\ ch \notin chats
                       /\ chats' = chats \cup {ch}
                       /\ ch.session_id = session_id

ApiRefused ==
    /\ chats' = chats
    /\ pending' = pending
    /\ last'.status = 200
    /\ last'.body \in {"Please login first!", "Chat session not found!"}

\* Up to the gateway: a request of a browser with a "user" entry for an
\* existing session goes to the gateway, any other is answered at once
ApiReachesGateway ==
    (last'.op = "chatbot_api" \/ pending' # pending) =>
    \A c \in Clients, session_id \in (1..SharedMaxSessionId) \cup {Absent},
       user_message \in ShortMessages \cup {None} :
       ApiOpen(c, session_id, user_message) =>
          IF session[c].logged /\ HasRow(chat_sessions, session_id)
          THEN /\ chats' = chats
               /\ \E call \in BagToSet(pending') :
                     /\ CopiesIn(call, pending') = CopiesIn(call, pending) + 1
                     /\ call.op = "chatbot_api"
                     /\ call.client = c
                     /\ call.session_id = session_id
                     /\ call.user_message = user_message
          ELSE ApiRefused

\* C10 (as stated): POST /chatbot-api adds exactly one Chat to the named
\* session whenever the auth session has a "user" entry and the session
\* exists, whoever owns it and whatever became of the caller's row; admin
\* block and delete leave auth sessions alone; otherwise it answers with a
\* reply string and adds no row.
C10_ApiAlwaysAppends ==
    [][/\ AdminActionsKeepSessions
       /\ ApiReachesGateway
       /\ pending' # pending =>
          \A call \in BagToSet(pending), bot_reply \in GatewayReplies :
             ApiStore(call, bot_reply) => OneChatAdded(call.session_id)]_vars

\* C10 (amended): as stated, for a body that carries a message and a gateway
\* that answers with a text; the Chat carries the named session id also when
\* that session was deleted while the gateway call was in flight.  Without a
\* message, or when the gateway answers None, the request fails with status
\* 500 and adds no row.
C10_ApiAppendsMessage ==
    [][/\ AdminActionsKeepSessions
       /\ ApiReachesGateway
       /\ pending' # pending =>
          \A call \in BagToSet(pending), bot_reply \in GatewayReplies :
             ApiStore(call, bot_reply) =>
                IF call.user_message # None /\ bot_reply # None
                THEN OneChatAdded(call.session_id) /\ last'.body = bot_reply
                ELSE chats' = chats /\ last'.status = 500]_vars

\* C10 witness: a browser whose user row is blocked or gone added a turn to a
\* session of another user
C10_StaleCallerAppended ==
    /\ last.op = "chatbot_api"
    /\ last.status = 200
    /\ last.body \in Replies
    /\ \A u \in users : u.id = session[last.client].user_id => u.is_blocked
    /\ \E s \in chat_sessions :
          s.id = last.target /\ s.user_id # session[last.client].user_id
    /\ \E ch \in chats : ch.session_id = last.target

====
